---- MODULE Spec2Model ----
(***************************************************************************)
(* layer.Container (src/src/models/container.js): the create / reconcile   *)
(* protocol of a container, its metadata patch calls and the completion    *)
(* handlers of the requests they issue.                                    *)
(*                                                                         *)
(* One Container and its owning Client are modelled.  A handler of the     *)
(* class is an operator from a snapshot of the state (the record Cur) to   *)
(* the snapshot after the handler returned; an action commits the result   *)
(* of one handler call.  Code the class inherits or calls but that is not  *)
(* part of container.js (Syncable, Root, Client, client-utils) is          *)
(* modelled from the specification of the component.                       *)
(***************************************************************************)
EXTENDS Integers, Sequences, FiniteSets, TLC

VARIABLES
    id,               \* this.id, a pair <<type, uuid>>
    url,              \* this.url
    createdAt,        \* this.createdAt
    metadata,         \* this.metadata
    syncState,        \* this.syncState
    isDestroyed,      \* this.isDestroyed
    _inLayerParser,   \* this._inLayerParser
    _toObject,        \* this._toObject, the cached result of toObject()
    eventPrefix,      \* this.constructor.eventPrefix
    registry,         \* the ids the client resolves to this container
    _delayedTriggers, \* notifications the container queued, not yet dispatched
    clientTriggers,   \* notifications the client queued, not yet dispatched
    emitted,          \* history: every notification, in the order it was emitted
    delivered,        \* history: every notification, in the order observers got it
    issued,           \* history: every request handed to the transport
    pending,          \* indices in issued of the requests not yet answered
    loads,            \* number of _load() calls (full reloads triggered)
    purged,           \* the <<id, position>> client._purgeMessagesByPosition got
    patchCalls,       \* number of set/deleteMetadataProperties calls made
    patchEvents,      \* number of server patch events received
    raised,           \* the error the last call raised, or NoError
    lastCall          \* history: the last handler that ran, and its argument

vars == <<id, url, createdAt, metadata, syncState, isDestroyed, _inLayerParser,
          _toObject, eventPrefix, registry, _delayedTriggers, clientTriggers, emitted,
          delivered, issued, pending, loads, purged, patchCalls, patchEvents,
          raised, lastCall>>

----------------------------------------------------------------------------
(* Bounds of the model *)

\* setMetadataProperties / deleteMetadataProperties calls in one behaviour
MaxPatchCalls == 1

\* server patch events in one behaviour
MaxPatchEvents == 1

----------------------------------------------------------------------------
(* Values *)

NoError == "none"
NoMessage == "no-message"
NoUrl == "undefined"
\* null, where an object may stand
NoObject == [null |-> TRUE]

\* Container.CREATED, Container.FOUND, Container.FOUND_WITHOUT_REQUESTED_METADATA
CREATED == "Created"
FOUND == "Found"
FOUND_WITHOUT_REQUESTED_METADATA == "FoundMismatch"

\* Metadata values: strings, numbers (invalid as a leaf) and objects, an object
\* being the sequence of its [k, v] entries in insertion order; a key is a
\* string, that is, the sequence of its tokens.
Str(v) == [t |-> "string", v |-> v]
Num(v) == [t |-> "number", v |-> v]
Obj(kv) == [t |-> "object", kv |-> kv]
Entry(k, v) == [k |-> k, v |-> v]

EmptyObj == Obj(<<>>)
MetaA1 == Obj(<<Entry(<<"a">>, Str("1"))>>)
MetaB2 == Obj(<<Entry(<<"b">>, Str("2"))>>)

\* Util.typeFromID: the type segment of an id
typeFromID(i) == i[1]

LocalId(prefix) == <<prefix, "local-1">>
ServerId(prefix) == <<prefix, "server-9">>
UrlOf(i) == IF i[2] = "server-9" THEN "/c/9" ELSE "/c/1"

\* A server description of a container
Resource(i, m) == [id |-> i, url |-> UrlOf(i), created_at |-> "T", metadata |-> m]

----------------------------------------------------------------------------
(* The state as one value, and its commit *)

Cur ==
    [id |-> id, url |-> url, createdAt |-> createdAt, metadata |-> metadata,
     syncState |-> syncState, isDestroyed |-> isDestroyed,
     _inLayerParser |-> _inLayerParser, _toObject |-> _toObject,
     eventPrefix |-> eventPrefix,
     registry |-> registry, _delayedTriggers |-> _delayedTriggers,
     clientTriggers |-> clientTriggers, emitted |-> emitted,
     delivered |-> delivered, issued |-> issued, pending |-> pending,
     loads |-> loads, purged |-> purged,
     patchCalls |-> patchCalls, patchEvents |-> patchEvents, raised |-> raised]

Commit(s) ==
    /\ id' = s.id
    /\ url' = s.url
    /\ createdAt' = s.createdAt
    /\ metadata' = s.metadata
    /\ syncState' = s.syncState
    /\ isDestroyed' = s.isDestroyed
    /\ _inLayerParser' = s._inLayerParser
    /\ _toObject' = s._toObject
    /\ eventPrefix' = s.eventPrefix
    /\ registry' = s.registry
    /\ _delayedTriggers' = s._delayedTriggers
    /\ clientTriggers' = s.clientTriggers
    /\ emitted' = s.emitted
    /\ delivered' = s.delivered
    /\ issued' = s.issued
    /\ pending' = s.pending
    /\ loads' = s.loads
    /\ purged' = s.purged
    /\ patchCalls' = s.patchCalls
    /\ patchEvents' = s.patchEvents
    /\ raised' = s.raised

----------------------------------------------------------------------------
(* Inherited plumbing: Syncable, Root, Client *)

\* Syncable.isNew
isNew(s) == s.syncState = "NEW"

\* Syncable._setSyncing: NEW -> SYNCING, SYNCED -> SAVING_PATCH
_setSyncing(s) ==
    [s EXCEPT !.syncState = IF @ = "NEW" THEN "SYNCING"
                            ELSE IF @ = "SYNCED" THEN "SAVING_PATCH"
                            ELSE @]

\* Syncable._setSynced
_setSynced(s) == [s EXCEPT !.syncState = "SYNCED"]

\* Root._triggerAsync: the notification joins the emitter's deferred queue
Root_triggerAsync(s, evt) ==
    [s EXCEPT !._delayedTriggers = Append(@, evt), !.emitted = Append(@, evt)]

\* Root.trigger: the notification is delivered inside the call; a destroyed
\* emitter has no observers left
Root_trigger(s, evt) ==
    [s EXCEPT !.delivered = IF s.isDestroyed THEN @ ELSE Append(@, evt),
              !.emitted = Append(@, evt)]

\* client._triggerAsync: the client's own deferred queue
Client_triggerAsync(s, evt) ==
    [s EXCEPT !.clientTriggers = Append(@, evt), !.emitted = Append(@, evt)]

\* client._updateContainerId: the registry follows the identity remap
_updateContainerId(s, oldId) ==
    [s EXCEPT !.registry = IF oldId \in @ THEN (@ \ {oldId}) \cup {s.id} ELSE @]

\* The transport takes a request; its callback runs later, once
Transport(s, req) ==
    [s EXCEPT !.issued = Append(@, req), !.pending = @ \cup {Len(s.issued) + 1}]

\* client.sendSocketRequest
sendSocketRequest(s, req) == Transport(s, req)

\* Root.destroy: terminal; the registry forgets the container
destroy(s) == [s EXCEPT !.isDestroyed = TRUE, !.registry = {}]

\* Syncable._load: a full reload from the server is triggered
_load(s) == [s EXCEPT !.loads = @ + 1]

\* The subclass hook send() hands a message to: it prepares the message and
\* leaves the container as it is
_setupMessage(s, message) == s

----------------------------------------------------------------------------
(* Strings the code inspects: a string is the sequence of its tokens, "." and  *)
(* "metadata" being tokens of their own ('metadata.a' is <<"metadata",".","a">>) *)

Dot == "."

\* s.indexOf(prefix) === 0
StartsWith(str, prefix) ==
    /\ Len(str) >= Len(prefix)
    /\ SubSeq(str, 1, Len(prefix)) = prefix

\* str.split('.'): the segments between the dots
RECURSIVE Split(_)
Split(str) ==
    IF \A i \in 1..Len(str) : str[i] # Dot THEN <<str>>
    ELSE LET d == CHOOSE i \in 1..Len(str) :
                    str[i] = Dot /\ \A j \in 1..(i - 1) : str[j] # Dot
         IN <<SubSeq(str, 1, d - 1)>> \o Split(SubSeq(str, d + 1, Len(str)))

\* JSON.stringify of a metadata value: the tokens of its text, keys in
\* insertion order
RECURSIVE JSON_stringify(_)
RECURSIVE JSON_entries(_)
JSON_entries(kv) ==
    IF kv = <<>> THEN <<>>
    ELSE kv[1].k \o <<":">> \o JSON_stringify(kv[1].v)
         \o (IF Len(kv) > 1 THEN <<",">> ELSE <<>>) \o JSON_entries(Tail(kv))

JSON_stringify(v) ==
    IF v.t = "object" THEN <<"{">> \o JSON_entries(v.kv) \o <<"}">>
    ELSE IF v.t = "string" THEN <<"\"", v.v, "\"">>
    ELSE <<v.v>>

----------------------------------------------------------------------------
(* Container *)

\* Syncable._clearObject: the cached snapshot is dropped
_clearObject(s) == [s EXCEPT !._toObject = NoObject]

\* _triggerAsync (container.js)
_triggerAsync(s, evt) == Root_triggerAsync(_clearObject(s), evt)

\* trigger (container.js)
trigger(s, evt) == Root_trigger(_clearObject(s), evt)

\* __updateMetadata: the hook of the metadata property
__updateMetadata(s, newValue, oldValue, paths) ==
    IF s._inLayerParser THEN s
    ELSE IF JSON_stringify(newValue) # JSON_stringify(oldValue)
         THEN _triggerAsync(s,
                [evtName |-> <<s.eventPrefix, "change">>,
                 args |-> [property |-> "metadata", newValue |-> newValue,
                           oldValue |-> oldValue, paths |-> paths]])
         ELSE s

\* _handlePatchEvent
_handlePatchEvent(s, newValue, oldValue, paths) ==
    IF StartsWith(paths[1], <<"metadata">>)
    THEN __updateMetadata(s, newValue, oldValue, paths)
    ELSE s

\* Syncable.toObject: the public properties of the container
Root_toObject(s) ==
    [id |-> s.id, url |-> s.url, createdAt |-> s.createdAt, metadata |-> s.metadata]

\* Util.clone: a copy that later writes of the original do not reach; values
\* here are never written in place, a value is its own copy
clone(v) == v

\* toObject: the snapshot is built when none is cached
toObject(s) ==
    IF s._toObject = NoObject
    THEN [s EXCEPT !._toObject =
            [Root_toObject(s) EXCEPT !.metadata = clone(s.metadata)]]
    ELSE s

\* The generic setter of Root: a write of this.metadata runs the property's hook
SetMetadata(s, value) ==
    __updateMetadata([s EXCEPT !.metadata = value], value, s.metadata, <<>>)

\* _populateFromServer without the registry's identity remap
_populateFromServer_NoRemap(s, container) ==
    LET s1 == _setSynced(s)
        oldId == s1.id
        s2 == [s1 EXCEPT !.id = container.id]
        s3 == IF oldId # s2.id
              THEN _triggerAsync(s2,
                     [evtName |-> <<s2.eventPrefix, "change">>,
                      args |-> [oldValue |-> oldId, newValue |-> s2.id,
                                property |-> "id"]])
              ELSE s2
        s4 == [s3 EXCEPT !.url = container.url,
                         !.createdAt = container.created_at]
    IN SetMetadata(s4, container.metadata)

\* _populateFromServer that keeps the local metadata
_populateFromServer_KeepMetadata(s, container) ==
    LET s1 == _setSynced(s)
        oldId == s1.id
        s2 == [s1 EXCEPT !.id = container.id]
        s3 == IF oldId # s2.id
              THEN _triggerAsync(_updateContainerId(s2, oldId),
                     [evtName |-> <<s2.eventPrefix, "change">>,
                      args |-> [oldValue |-> oldId, newValue |-> s2.id,
                                property |-> "id"]])
              ELSE s2
    IN [s3 EXCEPT !.url = container.url, !.createdAt = container.created_at]

\* _populateFromServer
_populateFromServer(s, container) ==
    LET s1 == _setSynced(s)
        oldId == s1.id
        s2 == [s1 EXCEPT !.id = container.id]
        s3 == IF oldId # s2.id
              THEN _triggerAsync(_updateContainerId(s2, oldId),
                     [evtName |-> <<s2.eventPrefix, "change">>,
                      args |-> [oldValue |-> oldId, newValue |-> s2.id,
                                property |-> "id"]])
              ELSE s2
        s4 == [s3 EXCEPT !.url = container.url,
                         !.createdAt = container.created_at]
    IN SetMetadata(s4, container.metadata)

\* _createSuccess that reports Created whatever the id
_createSuccess_AlwaysCreated(s, data) ==
    LET s1 == _populateFromServer(s, data)
    IN _triggerAsync(s1,
         [evtName |-> <<s1.eventPrefix, "sent">>, args |-> [result |-> CREATED]])

\* _createSuccess that queues 'sent' before it populates
_createSuccess_SentFirst(s, data) ==
    LET s1 == _triggerAsync(s,
                [evtName |-> <<s.eventPrefix, "sent">>,
                 args |-> [result |-> IF s.id = data.id THEN CREATED ELSE FOUND]])
    IN _populateFromServer(s1, data)

\* _createSuccess that triggers 'sent' inline
_createSuccess_SentInline(s, data) ==
    LET oldId == s.id
        s1 == _populateFromServer(s, data)
    IN trigger(s1,
         [evtName |-> <<s1.eventPrefix, "sent">>,
          args |-> [result |-> IF oldId = s1.id THEN CREATED ELSE FOUND]])

\* _createSuccess
_createSuccess(s, data) ==
    LET oldId == s.id
        s1 == _populateFromServer(s, data)
    IN _triggerAsync(s1,
         [evtName |-> <<s1.eventPrefix, "sent">>,
          args |-> [result |-> IF oldId = s1.id THEN CREATED ELSE FOUND]])

\* _createResultConflict (subclass): the authoritative resource embedded in
\* the conflict is merged like a success, with another outcome tag
_createResultConflict(s, data) ==
    LET s1 == _populateFromServer(s, data.data)
    IN _triggerAsync(s1,
         [evtName |-> <<s1.eventPrefix, "sent">>,
          args |-> [result |-> FOUND_WITHOUT_REQUESTED_METADATA]])

\* _createResult that checks isDestroyed before it emits 'ended'
_createResult_CheckFirst(s, result) ==
    LET s1 == Client_triggerAsync(s,
                [evtName |-> <<"state-change">>,
                 args |-> [ended |-> TRUE,
                           type |-> <<"send_", typeFromID(s.id)>>,
                           telemetryId |-> <<"send_", typeFromID(s.id), "_time">>,
                           id |-> s.id]])
    IN IF s.isDestroyed THEN s
       ELSE IF result.success THEN _createSuccess(s1, result.data)
       ELSE IF result.data.id = "conflict" THEN _createResultConflict(s1, result.data)
       ELSE destroy(trigger(s1,
                      [evtName |-> <<s1.eventPrefix, "sent-error">>,
                       args |-> [error |-> result.data]]))

\* _createResult that does not destroy the container on a failure
_createResult_NoDestroy(s, result) ==
    LET s1 == Client_triggerAsync(s,
                [evtName |-> <<"state-change">>,
                 args |-> [ended |-> TRUE,
                           type |-> <<"send_", typeFromID(s.id)>>,
                           telemetryId |-> <<"send_", typeFromID(s.id), "_time">>,
                           id |-> s.id]])
    IN IF s1.isDestroyed THEN s1
       ELSE IF result.success THEN _createSuccess(s1, result.data)
       ELSE IF result.data.id = "conflict" THEN _createResultConflict(s1, result.data)
       ELSE trigger(s1,
              [evtName |-> <<s1.eventPrefix, "sent-error">>,
               args |-> [error |-> result.data]])

\* _createResult that takes a conflict for a failure
_createResult_ConflictFails(s, result) ==
    LET s1 == Client_triggerAsync(s,
                [evtName |-> <<"state-change">>,
                 args |-> [ended |-> TRUE,
                           type |-> <<"send_", typeFromID(s.id)>>,
                           telemetryId |-> <<"send_", typeFromID(s.id), "_time">>,
                           id |-> s.id]])
    IN IF s1.isDestroyed THEN s1
       ELSE IF result.success THEN _createSuccess(s1, result.data)
       ELSE destroy(trigger(s1,
                      [evtName |-> <<s1.eventPrefix, "sent-error">>,
                       args |-> [error |-> result.data]]))

\* _createResult
_createResult(s, result) ==
    LET s1 == Client_triggerAsync(s,
                [evtName |-> <<"state-change">>,
                 args |-> [ended |-> TRUE,
                           type |-> <<"send_", typeFromID(s.id)>>,
                           telemetryId |-> <<"send_", typeFromID(s.id), "_time">>,
                           id |-> s.id]])
    IN IF s1.isDestroyed THEN s1
       ELSE IF result.success THEN _createSuccess(s1, result.data)
       ELSE IF result.data.id = "conflict" THEN _createResultConflict(s1, result.data)
       ELSE destroy(trigger(s1,
                      [evtName |-> <<s1.eventPrefix, "sent-error">>,
                       args |-> [error |-> result.data]]))

\* send without its isNew() guard
send_Unguarded(s, message) ==
    LET a == _setSyncing([s EXCEPT !.createdAt = "t_send"])
        b == Client_triggerAsync(a,
               [evtName |-> <<"state-change">>,
                args |-> [started |-> TRUE,
                          type |-> <<"send_", typeFromID(a.id)>>,
                          telemetryId |-> <<"send_", typeFromID(a.id), "_time">>,
                          id |-> a.id]])
        s1 == sendSocketRequest(b,
                [method |-> "POST", body |-> <<>>,
                 sync |-> [depends |-> b.id, target |-> b.id],
                 callback |-> "_createResult"])
    IN IF message # NoMessage THEN _setupMessage(s1, message) ELSE s1

\* send
send(s, message) ==
    LET s1 == IF isNew(s)
              THEN LET a == _setSyncing([s EXCEPT !.createdAt = "t_send"])
                       b == Client_triggerAsync(a,
                              [evtName |-> <<"state-change">>,
                               args |-> [started |-> TRUE,
                                         type |-> <<"send_", typeFromID(a.id)>>,
                                         telemetryId |-> <<"send_", typeFromID(a.id), "_time">>,
                                         id |-> a.id]])
                   IN sendSocketRequest(b,
                        [method |-> "POST", body |-> <<>>,
                         sync |-> [depends |-> b.id, target |-> b.id],
                         callback |-> "_createResult"])
              ELSE s
    IN IF message # NoMessage THEN _setupMessage(s1, message) ELSE s1

----------------------------------------------------------------------------
(* The patch codec: Util.layerParse *)

\* SET values are strings or nested mappings of strings
RECURSIVE ValidValue(_)
ValidValue(v) ==
    IF v.t = "string" THEN TRUE
    ELSE IF v.t = "object" THEN \A i \in 1..Len(v.kv) : ValidValue(v.kv[i].v)
    ELSE FALSE

\* The place of key k among the entries kv, or 0
IndexOfKey(kv, k) ==
    IF \E i \in 1..Len(kv) : kv[i].k = k
    THEN CHOOSE i \in 1..Len(kv) : kv[i].k = k
    ELSE 0

RemoveAt(seq, i) == SubSeq(seq, 1, i - 1) \o SubSeq(seq, i + 1, Len(seq))

\* SET along a path of keys; not ok when the path traverses a leaf
RECURSIVE SetPath(_, _, _)
SetPath(obj, path, value) ==
    LET i == IndexOfKey(obj.kv, path[1])
    IN IF Len(path) = 1
       THEN [ok |-> TRUE,
             v |-> Obj(IF i = 0 THEN Append(obj.kv, Entry(path[1], value))
                       ELSE [obj.kv EXCEPT ![i].v = value])]
       ELSE IF i = 0
       THEN [ok |-> TRUE,
             v |-> Obj(Append(obj.kv,
                         Entry(path[1], SetPath(EmptyObj, Tail(path), value).v)))]
       ELSE IF obj.kv[i].v.t # "object" THEN [ok |-> FALSE, v |-> obj]
       ELSE LET r == SetPath(obj.kv[i].v, Tail(path), value)
            IN [ok |-> r.ok,
                v |-> IF r.ok THEN Obj([obj.kv EXCEPT ![i].v = r.v]) ELSE obj]

\* DELETE along a path of keys; a path that does not exist deletes nothing
RECURSIVE DeletePath(_, _)
DeletePath(obj, path) ==
    LET i == IndexOfKey(obj.kv, path[1])
    IN IF i = 0 THEN obj
       ELSE IF Len(path) = 1 THEN Obj(RemoveAt(obj.kv, i))
       ELSE IF obj.kv[i].v.t # "object" THEN obj
       ELSE Obj([obj.kv EXCEPT ![i].v = DeletePath(obj.kv[i].v, Tail(path))])

\* The keys an operation addresses below 'metadata'
PathOf(op) == Tail(Split(op.property))

ValidOperation(op) ==
    op.operation = "set" =>
        /\ ValidValue(op.value)
        /\ PathOf(op) = <<>> => op.value.t = "object"

ApplyOperation(md, op) ==
    IF op.operation = "set"
    THEN IF PathOf(op) = <<>> THEN [ok |-> TRUE, v |-> op.value]
         ELSE SetPath(md, PathOf(op), op.value)
    ELSE IF PathOf(op) = <<>> THEN [ok |-> TRUE, v |-> EmptyObj]
         ELSE [ok |-> TRUE, v |-> DeletePath(md, PathOf(op))]

\* The operations in order, up to the first that fails
RECURSIVE ApplyOperations(_, _)
ApplyOperations(md, ops) ==
    IF ops = <<>> THEN [ok |-> TRUE, v |-> md]
    ELSE LET r == ApplyOperation(md, ops[1])
         IN IF r.ok THEN ApplyOperations(r.v, Tail(ops)) ELSE [ok |-> FALSE, v |-> md]

Properties(ops) == [i \in 1..Len(ops) |-> ops[i].property]

\* Util.layerParse on this.metadata: validation, then application, then the
\* change notification of the property touched
layerParse(s, operations) ==
    IF \E i \in 1..Len(operations) : ~ValidOperation(operations[i])
    THEN [s EXCEPT !.raised = "InvalidMetadataValueError"]
    ELSE LET r == ApplyOperations(s.metadata, operations)
             s1 == [s EXCEPT !.metadata = r.v]
         IN IF ~r.ok THEN [s1 EXCEPT !.raised = "InvalidPathError"]
            ELSE IF JSON_stringify(r.v) # JSON_stringify(s.metadata)
            THEN _triggerAsync(s1,
                   [evtName |-> <<s1.eventPrefix, "change">>,
                    args |-> [property |-> "metadata", newValue |-> r.v,
                              oldValue |-> s.metadata,
                              paths |-> Properties(operations)]])
            ELSE s1

\* JSON.stringify(layerPatchOperations)
JSON_operations(ops) ==
    [i \in 1..Len(ops) |->
        IF ops[i].operation = "set"
        THEN [operation |-> "set", property |-> ops[i].property,
              value |-> JSON_stringify(ops[i].value)]
        ELSE [operation |-> "delete", property |-> ops[i].property]]

\* Syncable._xhr: no request from a destroyed container, and none but the
\* create request while the container is NEW
_xhr(s, req) ==
    IF s.isDestroyed THEN s
    ELSE IF isNew(s) /\ req.method \notin {"POST", "GET"} THEN s
    ELSE Transport(_setSyncing(s), req)

\* Syncable: a request of _xhr completed
_xhrDone(s) ==
    IF ~s.isDestroyed /\ s.syncState = "SAVING_PATCH"
       /\ ~\E n \in s.pending : s.issued[n].method = "PATCH"
    THEN _setSynced(s)
    ELSE s

----------------------------------------------------------------------------
(* Container: metadata patches *)

\* The operations of props with 'metadata.' put before every name
SetOperations_AlwaysPrefix(props) ==
    LET named == SelectSeq(props, LAMBDA e : e.name # <<>>)
    IN [i \in 1..Len(named) |->
          [operation |-> "set", property |-> <<"metadata", Dot>> \o named[i].name,
           value |-> named[i].value]]

\* setMetadataProperties, lines 223-236: the operations of props, an object
\* given as its [name, value] entries in key order
RECURSIVE SetOperations(_)
SetOperations(props) ==
    IF props = <<>> THEN <<>>
    ELSE LET name == props[1].name
             fullName == IF name # <<>> /\ name # <<"metadata">>
                            /\ ~StartsWith(name, <<"metadata", Dot>>)
                         THEN <<"metadata", Dot>> \o name
                         ELSE name
         IN (IF name # <<>>
             THEN <<[operation |-> "set", property |-> fullName,
                     value |-> props[1].value]>>
             ELSE <<>>)
            \o SetOperations(Tail(props))

\* deleteMetadataProperties, lines 290-299
RECURSIVE DeleteOperations(_)
DeleteOperations(props) ==
    IF props = <<>> THEN <<>>
    ELSE LET property == IF props[1] # <<"metadata">>
                            /\ ~StartsWith(props[1], <<"metadata", Dot>>)
                         THEN <<"metadata", Dot>> \o props[1]
                         ELSE props[1]
         IN <<[operation |-> "delete", property |-> property]>>
            \o DeleteOperations(Tail(props))

\* setMetadataProperties that only sends its request
setMetadataProperties_RequestOnly(s, props) ==
    _xhr(s, [url |-> "", method |-> "PATCH",
             data |-> JSON_operations(SetOperations(props)),
             headers |-> "application/vnd.layer-patch+json",
             callback |-> "setMetadataProperties"])

\* setMetadataProperties that sends its request though the patch raised
setMetadataProperties_SendsAnyway(s, props) ==
    LET layerPatchOperations == SetOperations(props)
        s1 == layerParse([s EXCEPT !._inLayerParser = TRUE], layerPatchOperations)
    IN _xhr([s1 EXCEPT !._inLayerParser = FALSE],
            [url |-> "", method |-> "PATCH",
             data |-> JSON_operations(layerPatchOperations),
             headers |-> "application/vnd.layer-patch+json",
             callback |-> "setMetadataProperties"])

\* setMetadataProperties that hands its request straight to the transport
setMetadataProperties_NoXhrGate(s, props) ==
    LET layerPatchOperations == SetOperations(props)
        s1 == layerParse([s EXCEPT !._inLayerParser = TRUE], layerPatchOperations)
    IN IF s1.raised # NoError THEN s1
       ELSE Transport(_setSyncing([s1 EXCEPT !._inLayerParser = FALSE]),
                 [url |-> "", method |-> "PATCH",
                  data |-> JSON_operations(layerPatchOperations),
                  headers |-> "application/vnd.layer-patch+json",
                  callback |-> "setMetadataProperties"])

\* setMetadataProperties
setMetadataProperties(s, props) ==
    LET layerPatchOperations == SetOperations(props)
        s1 == layerParse([s EXCEPT !._inLayerParser = TRUE], layerPatchOperations)
    IN IF s1.raised # NoError THEN s1
       ELSE _xhr([s1 EXCEPT !._inLayerParser = FALSE],
                 [url |-> "", method |-> "PATCH",
                  data |-> JSON_operations(layerPatchOperations),
                  headers |-> "application/vnd.layer-patch+json",
                  callback |-> "setMetadataProperties"])

\* The completion callback of setMetadataProperties with no test of the error id
setMetadataPropertiesResult_AnyFailure(s, result) ==
    IF ~result.success /\ ~s.isDestroyed
    THEN _load(s)
    ELSE s

\* The completion callback of setMetadataProperties, lines 257-259
setMetadataPropertiesResult(s, result) ==
    IF ~result.success /\ ~s.isDestroyed
       /\ result.data.id # "authentication_required"
    THEN _load(s)
    ELSE s

\* deleteMetadataProperties
deleteMetadataProperties(s, props) ==
    LET layerPatchOperations == DeleteOperations(props)
        s1 == layerParse([s EXCEPT !._inLayerParser = TRUE], layerPatchOperations)
    IN IF s1.raised # NoError THEN s1
       ELSE _xhr([s1 EXCEPT !._inLayerParser = FALSE],
                 [url |-> "", method |-> "PATCH",
                  data |-> JSON_operations(layerPatchOperations),
                  headers |-> "application/vnd.layer-patch+json",
                  callback |-> "deleteMetadataProperties"])

\* The completion callback of deleteMetadataProperties, lines 320-322
deleteMetadataPropertiesResult(s, result) ==
    IF ~result.success /\ result.data.id # "authentication_required"
    THEN _load(s)
    ELSE s

----------------------------------------------------------------------------
(* Container: server patch events *)

\* The first segment of a dotted path
FirstSegment(path) == Split(path)[1]

\* The delta event processor: the patch codec writes the property the event
\* addresses, in place, then reports the change to the container
handlePatch(s, event) ==
    LET s1 == IF FirstSegment(event.paths[1]) = <<"metadata">>
              THEN [s EXCEPT !.metadata = event.newValue]
              ELSE s
    IN _handlePatchEvent(s1, event.newValue, event.oldValue, event.paths)

----------------------------------------------------------------------------
(* Container: server delete events *)

\* Constants.DELETION_MODE
MY_DEVICES == "my_devices"
ALL == "all_participants"

\* The truth value of data.from_position: absent and 0 are falsy
HasPosition(data) == "from_position" \in DOMAIN data /\ data.from_position # 0

\* client._purgeMessagesByPosition
_purgeMessagesByPosition(s, i, position) ==
    [s EXCEPT !.purged = @ \cup {<<i, position>>}]

\* Syncable._handleWebsocketDelete: full local teardown
Syncable_handleWebsocketDelete(s) == destroy(s)

\* _handleWebsocketDelete
_handleWebsocketDelete(s, data) ==
    IF data.mode = MY_DEVICES /\ HasPosition(data)
    THEN _purgeMessagesByPosition(s, s.id, data.from_position)
    ELSE Syncable_handleWebsocketDelete(s)

----------------------------------------------------------------------------
(* Inputs *)

EventPrefixes == {"conversations"}

Messages == {NoMessage, "m1"}

\* What the transport may answer to the create request of container s
CreateResults(s) ==
    {[success |-> TRUE, data |-> Resource(i, m)] :
        i \in {s.id, ServerId(s.eventPrefix)}, m \in {s.metadata, MetaA1}}
    \cup {[success |-> FALSE,
           data |-> [id |-> "conflict", data |-> Resource(i, MetaA1)]] :
            i \in {s.id, ServerId(s.eventPrefix)}}
    \cup {[success |-> FALSE, data |-> [id |-> "server_error"]]}

\* What the transport may answer to a PATCH request
PatchResults ==
    {[success |-> TRUE, data |-> [id |-> "none"]],
     [success |-> FALSE, data |-> [id |-> "authentication_required"]],
     [success |-> FALSE, data |-> [id |-> "server_error"]]}

\* Arguments of setMetadataProperties
SetInputs ==
    {<<[name |-> <<"a">>, value |-> Str("2")]>>}

\* Arguments of deleteMetadataProperties
DeleteInputs == {<<<<"metadata", Dot, "a">>>>}

\* Arguments of setMetadataProperties: a bare key, an empty key before a
\* prefixed key, a number after a valid entry, a path through a leaf after a
\* valid entry, the whole of 'metadata', a key that starts with the letters
\* 'metadata'
AnySetInputs ==
    {<<[name |-> <<"a">>, value |-> Str("2")]>>,
     <<[name |-> <<>>, value |-> Str("x")],
       [name |-> <<"metadata", Dot, "b">>, value |-> Str("3")]>>,
     <<[name |-> <<"b">>, value |-> Str("3")], [name |-> <<"a">>, value |-> Num("7")]>>,
     <<[name |-> <<"b">>, value |-> Str("3")],
       [name |-> <<"a", Dot, "x">>, value |-> Str("1")]>>,
     <<[name |-> <<"metadata">>, value |-> Obj(<<Entry(<<"c">>, Str("1"))>>)]>>,
     <<[name |-> <<"metadata", "x">>, value |-> Str("1")]>>}

\* Arguments of deleteMetadataProperties
AnyDeleteInputs ==
    {<<<<"a">>>>,
     <<<<>>>>,
     <<<<"metadata">>>>,
     <<<<"zz">>, <<"metadata", Dot, "b">>>>,
     <<<<"metadata", "x">>>>}

\* Server patch events for container s: an echo of its metadata, a change of
\* its metadata, and changes of other properties
PatchEvents(s) ==
    {[paths |-> <<<<"metadata", Dot, "a">>>>,
      newValue |-> s.metadata, oldValue |-> s.metadata],
     [paths |-> <<<<"metadata", Dot, "a">>, <<"metadata", Dot, "b">>>>,
      newValue |-> Obj(<<Entry(<<"a">>, Str("9"))>>), oldValue |-> s.metadata]}
    \cup {[paths |-> <<path>>, newValue |-> Str("n"), oldValue |-> Str("o")] :
            path \in {<<"metadata", "x">>, <<"participants">>}}

\* Server delete events
DeleteEvents ==
    {[mode |-> m] : m \in {MY_DEVICES, ALL}}
    \cup {[mode |-> m, from_position |-> p] : m \in {MY_DEVICES, ALL}, p \in {0, 42}}

----------------------------------------------------------------------------
(* The state machine *)

\* The constructor: a new local container, or one built from a server
\* description (options.fromServer)
Init ==
    /\ eventPrefix \in EventPrefixes
    /\ \/ /\ id = LocalId(eventPrefix)
          /\ url = NoUrl
          /\ createdAt = "t_ctor"
          /\ metadata = MetaB2
          /\ syncState = "NEW"
       \/ /\ id = ServerId(eventPrefix)
          /\ url = UrlOf(id)
          /\ createdAt = "T"
          /\ metadata = MetaA1
          /\ syncState = "SYNCED"
    /\ isDestroyed = FALSE
    /\ _inLayerParser = FALSE
    /\ _toObject = NoObject
    /\ registry = {id}
    /\ _delayedTriggers = <<>>
    /\ clientTriggers = <<>>
    /\ emitted = <<>>
    /\ delivered = <<>>
    /\ issued = <<>>
    /\ pending = {}
    /\ loads = 0
    /\ purged = {}
    /\ patchCalls = 0
    /\ patchEvents = 0
    /\ raised = NoError
    /\ lastCall = [op |-> "constructor"]

\* The state a call starts from
Call == [Cur EXCEPT !.raised = NoError]

Send ==
    \E message \in Messages :
        /\ Commit(send(Call, message))
        /\ lastCall' = [op |-> "send"]

\* The transport answers the create request
CreateResult ==
    \E n \in pending : \E result \in CreateResults(Cur) :
        /\ issued[n].callback = "_createResult"
        /\ Commit(_createResult([Call EXCEPT !.pending = @ \ {n}], result))
        /\ lastCall' = [op |-> "_createResult", arg |-> result]

SetMetadataProperties ==
    \E props \in SetInputs :
        /\ patchCalls < MaxPatchCalls
        /\ Commit(setMetadataProperties([Call EXCEPT !.patchCalls = @ + 1], props))
        /\ lastCall' = [op |-> "setMetadataProperties", arg |-> props]

DeleteMetadataProperties ==
    \E props \in DeleteInputs :
        /\ patchCalls < MaxPatchCalls
        /\ Commit(deleteMetadataProperties([Call EXCEPT !.patchCalls = @ + 1], props))
        /\ lastCall' = [op |-> "deleteMetadataProperties", arg |-> props]

\* The transport answers a PATCH request
PatchResult ==
    \E n \in pending : \E result \in PatchResults :
        /\ issued[n].method = "PATCH"
        /\ LET s == _xhrDone([Call EXCEPT !.pending = @ \ {n}])
           IN Commit(IF issued[n].callback = "setMetadataProperties"
                     THEN setMetadataPropertiesResult(s, result)
                     ELSE deleteMetadataPropertiesResult(s, result))
        /\ lastCall' = [op |-> issued[n].callback \o "Result", arg |-> result]

\* A delete event of the server reaches the container
HandleWebsocketDelete ==
    \E data \in DeleteEvents :
        /\ ~isDestroyed
        /\ Commit(_handleWebsocketDelete(Call, data))
        /\ lastCall' = [op |-> "_handleWebsocketDelete", arg |-> data]

\* The application destroys the container
Destroy ==
    /\ ~isDestroyed
    /\ Commit(destroy(Call))
    /\ lastCall' = [op |-> "destroy"]

\* The client's deferred queue is flushed: its notifications are dispatched in
\* the order they were queued
DeliverClient ==
    /\ clientTriggers # <<>>
    /\ Commit([Cur EXCEPT !.clientTriggers = <<>>,
                          !.delivered = @ \o clientTriggers])
    /\ lastCall' = [op |-> "client._processDelayedTriggers"]

\* Root._processDelayedTriggers: the container's deferred queue is flushed in
\* the order it was queued; a destroyed container dispatches nothing
DeliverContainer ==
    /\ ~isDestroyed
    /\ _delayedTriggers # <<>>
    /\ Commit([Cur EXCEPT !._delayedTriggers = <<>>,
                          !.delivered = @ \o _delayedTriggers])
    /\ lastCall' = [op |-> "_processDelayedTriggers"]

Next ==
    \/ Send
    \/ CreateResult
    \/ SetMetadataProperties
    \/ DeleteMetadataProperties
    \/ PatchResult
    \/ HandleWebsocketDelete
    \/ Destroy
    \/ DeliverClient
    \/ DeliverContainer

Spec == Init /\ [][Next]_vars

----------------------------------------------------------------------------
(* The state machine of the metadata patches and the server patch events: a  *)
(* container, new or synced, outside its create protocol                     *)

SetAnyMetadataProperties ==
    \E props \in AnySetInputs :
        /\ patchCalls < MaxPatchCalls
        /\ Commit(setMetadataProperties([Call EXCEPT !.patchCalls = @ + 1], props))
        /\ lastCall' = [op |-> "setMetadataProperties", arg |-> props]

DeleteAnyMetadataProperties ==
    \E props \in AnyDeleteInputs :
        /\ patchCalls < MaxPatchCalls
        /\ Commit(deleteMetadataProperties([Call EXCEPT !.patchCalls = @ + 1], props))
        /\ lastCall' = [op |-> "deleteMetadataProperties", arg |-> props]

\* A patch event of the server reaches the container
HandlePatchEvent ==
    \E event \in PatchEvents(Cur) :
        /\ patchEvents < MaxPatchEvents
        /\ ~isDestroyed
        /\ Commit(handlePatch([Call EXCEPT !.patchEvents = @ + 1], event))
        /\ lastCall' = [op |-> "_handlePatchEvent", arg |-> event]

\* The application asks for the snapshot
ToObject ==
    /\ Commit(toObject(Call))
    /\ lastCall' = [op |-> "toObject"]

PatchNext ==
    \/ SetAnyMetadataProperties
    \/ DeleteAnyMetadataProperties
    \/ PatchResult
    \/ HandlePatchEvent
    \/ ToObject
    \/ Destroy

PatchSpec == Init /\ [][PatchNext]_vars

----------------------------------------------------------------------------
(* Vocabulary of the properties *)

\* Everything but the histories of calls made
Observable ==
    <<id, url, createdAt, metadata, syncState, isDestroyed, _inLayerParser,
      _toObject, eventPrefix, registry, _delayedTriggers, clientTriggers, emitted,
      delivered, issued, pending, loads, purged, raised>>

\* The step is a call of handler op
Calls(op) == lastCall'.op = op /\ vars' # vars

IsStateChange(e, phase) == e.evtName = <<"state-change">> /\ phase \in DOMAIN e.args
IsSent(e) == e.evtName = <<eventPrefix, "sent">>
IsSentError(e) == e.evtName = <<eventPrefix, "sent-error">>
IsChange(e, property) ==
    e.evtName = <<eventPrefix, "change">> /\ e.args.property = property

IsCreateRequest(r) == r.method = "POST"
IsPatchRequest(r) == r.method = "PATCH"

\* The places of seq whose element satisfies P
Where(seq, P(_)) == {i \in DOMAIN seq : P(seq[i])}

IsStarted(e) == IsStateChange(e, "started")
IsEnded(e) == IsStateChange(e, "ended")

\* What a call appended to a history
Added(before, after) == SubSeq(after, Len(before) + 1, Len(after))
Extends(before, after) ==
    Len(after) >= Len(before) /\ SubSeq(after, 1, Len(before)) = before

----------------------------------------------------------------------------
(* C1 *)

C1_AtMostOnce ==
    /\ Cardinality(Where(issued, IsCreateRequest)) <= 1
    /\ Cardinality(Where(emitted, IsStarted)) <= 1
    /\ Cardinality(Where(emitted, IsEnded)) <= 1
    /\ Cardinality(Where(emitted, IsStarted)) = Cardinality(Where(issued, IsCreateRequest))
    /\ Cardinality(Where(emitted, IsEnded)) <= Cardinality(Where(emitted, IsStarted))

C1_SendWhenNotNewIsNoOp ==
    Calls("send") /\ syncState # "NEW" => UNCHANGED Observable

\* C1: over any sequence of send() calls the create request is issued once and
\* one state-change 'started' and one 'ended' are emitted; a send() on a
\* container that is no longer NEW issues no request, emits nothing and
\* changes no state.
C1_SendOnce == [](C1_AtMostOnce) /\ [][C1_SendWhenNotNewIsNoOp]_vars

\* send() was called again after the create request was answered
C1_Witness ==
    /\ lastCall.op = "send"
    /\ syncState = "SYNCED"
    /\ Cardinality(Where(issued, IsCreateRequest)) = 1
    /\ Cardinality(Where(emitted, IsEnded)) = 1

----------------------------------------------------------------------------
(* C2 *)

\* The request a create result answers
Answered == pending \ pending'

C2_EndedFirst ==
    Calls("_createResult") =>
        /\ Extends(emitted, emitted')
        /\ Added(emitted, emitted') # <<>>
        /\ LET e == Added(emitted, emitted')[1]
           IN /\ IsEnded(e)
              /\ \A n \in Answered : issued[n].sync.target = e.args.id
              /\ \E i \in Where(emitted, IsStarted) :
                    /\ emitted[i].args.id = e.args.id
                    /\ emitted[i].args.type = e.args.type

C2_DispatchOrder ==
    \A j \in Where(delivered, IsEnded) :
        \E i \in Where(delivered, IsStarted) :
            /\ i < j
            /\ delivered[i].args.id = delivered[j].args.id
            /\ delivered[i].args.type = delivered[j].args.type

\* C2: every create result (success, conflict or failure, destroyed or not)
\* emits state-change 'ended' before anything else, with the correlation id
\* and type of the 'started' of the send() that issued the request; observers
\* get 'started' before 'ended'.
C2_EndedPairsStarted == [](C2_DispatchOrder) /\ [][C2_EndedFirst]_vars

\* a failed create: observers got 'sent-error', and 'started' then 'ended'
C2_Witness ==
    /\ Where(delivered, IsEnded) # {}
    /\ Where(delivered, IsSentError) # {}

----------------------------------------------------------------------------
(* C3 *)

Last(seq) == seq[Len(seq)]

C3_Outcome ==
    Calls("_createResult") /\ ~isDestroyed /\ lastCall'.arg.success =>
        LET added == Added(emitted, emitted')
        IN /\ Cardinality(Where(added, IsSent)) = 1
           /\ IsSent(Last(added))
           /\ IF lastCall'.arg.data.id = id
              THEN Last(added).args.result = CREATED
              ELSE Last(added).args.result \in {FOUND, FOUND_WITHOUT_REQUESTED_METADATA}

\* C3: on a successful create result the 'sent' event carries Created when
\* the id the server returned is the id the container had, and Found or
\* FoundMismatch when it is another id.
C3_SentOutcome == [][C3_Outcome]_vars

\* a successful create result that returned another id was reported Found
C3_Witness ==
    /\ lastCall.op = "_createResult"
    /\ lastCall.arg.success
    /\ lastCall.arg.data.id # LocalId(eventPrefix)
    /\ _delayedTriggers # <<>>
    /\ IsSent(Last(_delayedTriggers))
    /\ Last(_delayedTriggers).args.result = FOUND

----------------------------------------------------------------------------
(* C4 *)

\* metadata[key], for a key that is present
Lookup(md, key) == md.kv[IndexOfKey(md.kv, key)].v

ScenarioResult ==
    [success |-> TRUE,
     data |-> [id |-> <<"conversations", "server-9">>, url |-> "/c/9",
               metadata |-> Obj(<<Entry(<<"a">>, Str("1"))>>), created_at |-> "T"]]

\* The scenario: X (local-1, sent from NEW) gets ScenarioResult
C4_Scenario(outcome) ==
    /\ Calls("_createResult")
    /\ ~isDestroyed
    /\ id = <<"conversations", "local-1">>
    /\ lastCall'.arg = ScenarioResult
    => /\ id' = <<"conversations", "server-9">>
       /\ IndexOfKey(metadata'.kv, <<"a">>) # 0
       /\ Lookup(metadata', <<"a">>) = Str("1")
       /\ IsSent(Last(emitted'))
       /\ Last(emitted').args.result = outcome
       /\ <<"conversations", "local-1">> \notin registry'

\* C4 as claimed: the scenario ends with outcome Created
C4_OutcomeCreated == [][C4_Scenario(CREATED)]_vars

\* C4, amended: X (id local-1, NEW) after send() and the result {success,
\* data: {id: server-9, url: /c/9, metadata: {a: 1}, created_at: T}} has id
\* server-9 and metadata.a = 1, the registry no longer resolves local-1, and
\* the outcome is Found.
C4_OutcomeFound == [][C4_Scenario(FOUND)]_vars

\* the scenario happened
C4_Witness ==
    /\ lastCall.op = "_createResult"
    /\ lastCall.arg = ScenarioResult
    /\ id = <<"conversations", "server-9">>
    /\ registry = {id}
    /\ Lookup(metadata, <<"a">>) = Str("1")

----------------------------------------------------------------------------
(* C5 *)

IsIdChange(e) == IsChange(e, "id")
IsMetadataChange(e) == IsChange(e, "metadata")

\* The create result gave the container another id
IdRemapped ==
    Where(issued, IsCreateRequest) # {} /\ id # LocalId(eventPrefix)

\* The container's notifications in their order of dispatch, past and to come
Dispatch == delivered \o _delayedTriggers

\* C5: when a create result changed the id, the 'id' change notification is
\* dispatched before the 'sent' notification of that result, whatever else
\* the container has queued.
C5_IdChangeBeforeSent ==
    IdRemapped =>
        \A j \in Where(Dispatch, IsSent) :
            \E i \in Where(Dispatch, IsIdChange) :
                i < j /\ Dispatch[i].args.newValue = id

\* observers got the id change, then 'sent', and the change of a metadata patch
C5_Witness ==
    /\ IdRemapped
    /\ Where(delivered, IsSent) # {}
    /\ \E i \in Where(delivered, IsMetadataChange) : delivered[i].args.paths # <<>>

----------------------------------------------------------------------------
(* C6 *)

\* The step delivers 'sent' to the observers
DeliversSent ==
    /\ Extends(delivered, delivered')
    /\ Where(Added(delivered, delivered'), IsSent) # {}

C6_Remapped ==
    DeliversSent /\ IdRemapped =>
        id \in registry /\ LocalId(eventPrefix) \notin registry

\* C6: when the create result changed the id, the registry resolves the new
\* id and no longer the provisional id at the moment 'sent' is delivered.
C6_RegistryRemappedAtSent == [][C6_Remapped]_vars

\* 'sent' was delivered for a container whose id was remapped
C6_Witness ==
    /\ lastCall.op = "_processDelayedTriggers"
    /\ IdRemapped
    /\ Where(delivered, IsSent) # {}
    /\ registry = {ServerId(eventPrefix)}

----------------------------------------------------------------------------
(* C7 *)

C7_Failure ==
    /\ Calls("_createResult")
    /\ ~isDestroyed
    /\ ~lastCall'.arg.success
    /\ lastCall'.arg.data.id # "conflict"
    => /\ isDestroyed'
       /\ LET added == Added(emitted, emitted')
          IN /\ Len(added) = 2
             /\ IsEnded(added[1])
             /\ IsSentError(added[2])
             /\ added[2].args.error = lastCall'.arg.data
             /\ delivered' = Append(delivered, added[2])

C7_NoSentWithSentError ==
    Where(emitted, IsSentError) # {} =>
        isDestroyed /\ Where(emitted, IsSent) = {}

C7_DestroyedForever == isDestroyed => isDestroyed'

\* C7: a failed create result other than a conflict, on a container that is
\* not destroyed, delivers 'sent-error' with the error payload and then
\* destroys the container; no 'sent' is ever emitted for it and isDestroyed
\* stays true.
C7_FailureDestroys ==
    [](C7_NoSentWithSentError) /\ [][C7_Failure /\ C7_DestroyedForever]_vars

\* a failed create: 'sent-error' delivered with the payload, container destroyed
C7_Witness ==
    /\ lastCall.op = "_createResult"
    /\ isDestroyed
    /\ Where(delivered, IsSentError) # {}
    /\ \A i \in Where(delivered, IsSentError) :
          delivered[i].args.error = [id |-> "server_error"]

----------------------------------------------------------------------------
(* C8 *)

C8_Conflict ==
    /\ Calls("_createResult")
    /\ ~isDestroyed
    /\ ~lastCall'.arg.success
    /\ lastCall'.arg.data.id = "conflict"
    => LET resource == lastCall'.arg.data.data
           added == Added(emitted, emitted')
       IN /\ ~isDestroyed'
          /\ id' = resource.id
          /\ url' = resource.url
          /\ createdAt' = resource.created_at
          /\ metadata' = resource.metadata
          /\ Where(added, IsSentError) = {}
          /\ IsSent(Last(added))

\* C8: a create result that failed with id 'conflict', on a container that is
\* not destroyed, leaves it not destroyed, with its fields those of the
\* resource embedded in data, emits no 'sent-error' and ends with 'sent'.
C8_ConflictReconciles == [][C8_Conflict]_vars

\* a conflict was reconciled
C8_Witness ==
    /\ lastCall.op = "_createResult"
    /\ ~lastCall.arg.success
    /\ lastCall.arg.data.id = "conflict"
    /\ ~isDestroyed
    /\ id = lastCall.arg.data.data.id
    /\ metadata = MetaA1
    /\ IsSent(Last(_delayedTriggers))

----------------------------------------------------------------------------
(* C9 *)

\* The container, its notifications and its requests
ContainerAndTraffic ==
    <<id, url, createdAt, metadata, syncState, isDestroyed, _inLayerParser,
      _toObject, registry, _delayedTriggers, clientTriggers, emitted, delivered, issued,
      pending, loads, purged>>

C9_NoOp ==
    /\ isDestroyed
    /\ \/ Calls("send")
       \/ Calls("setMetadataProperties")
       \/ Calls("deleteMetadataProperties")
    => raised' = NoError /\ UNCHANGED ContainerAndTraffic

\* C9: on a destroyed container every send(), setMetadataProperties() and
\* deleteMetadataProperties() is a silent no-op: no error, no field changed,
\* no notification, no request.
C9_DestroyedCallsAreNoOps == [][C9_NoOp]_vars

----------------------------------------------------------------------------
(* C10 *)

\* The container and its notifications
ContainerAndNotifications ==
    <<id, url, createdAt, metadata, syncState, isDestroyed, _inLayerParser,
      _toObject, registry, _delayedTriggers, clientTriggers, emitted, delivered, issued,
      loads, purged>>

C10_NoOp ==
    /\ isDestroyed
    /\ \/ Calls("_createResult")
       \/ Calls("setMetadataPropertiesResult")
       \/ Calls("deleteMetadataPropertiesResult")
    => UNCHANGED ContainerAndNotifications

\* C10: the completion handler of a request (create, set-metadata PATCH,
\* delete-metadata PATCH) that runs after the container was destroyed does
\* nothing: no notification, no reload, no state changed.
C10_CompletionsAfterDestroyAreNoOps == [][C10_NoOp]_vars

----------------------------------------------------------------------------
(* C11 *)

\* The step is the completion of a PATCH request
PatchCompletes ==
    Calls("setMetadataPropertiesResult") \/ Calls("deleteMetadataPropertiesResult")

\* The result asks for a reload: a failure other than authentication_required
WantsReload(result) ==
    ~result.success /\ result.data.id # "authentication_required"

C11_Reload ==
    /\ PatchCompletes /\ ~isDestroyed
       => loads' = loads + (IF WantsReload(lastCall'.arg) THEN 1 ELSE 0)
    /\ loads' # loads => PatchCompletes

\* C11: the result of a PATCH request of setMetadataProperties or
\* deleteMetadataProperties, on a container that is not destroyed, triggers
\* one full reload when it is a failure whose error id is not
\* 'authentication_required', and none when it is a success or an
\* authentication_required failure; nothing else triggers a reload.
C11_ReloadOnFailure == [][C11_Reload]_vars

\* a PATCH of setMetadataProperties failed with server_error: one reload
C11_Witness ==
    /\ lastCall.op = "setMetadataPropertiesResult"
    /\ lastCall.arg = [success |-> FALSE, data |-> [id |-> "server_error"]]
    /\ ~isDestroyed
    /\ loads = 1

----------------------------------------------------------------------------
(* C12 *)

C12_Delete ==
    Calls("_handleWebsocketDelete") =>
        LET data == lastCall'.arg
        IN IF data.mode = MY_DEVICES /\ "from_position" \in DOMAIN data
           THEN /\ purged' = purged \cup {<<id, data.from_position>>}
                /\ ~isDestroyed'
           ELSE /\ isDestroyed'
                /\ purged' = purged

\* C12: a server delete event of mode 'my devices' that carries a position,
\* whatever the position, asks the client for a partial purge with the
\* container's id and that position and leaves the container alive; every
\* other delete event tears the container down and asks for no purge.
C12_PartialPurgeOrTeardown == [][C12_Delete]_vars

----------------------------------------------------------------------------
(* C17 *)

\* The notifications of the client, and those of the container
IsClientEvent(e) == e.evtName = <<"state-change">>
IsContainerEvent(e) == ~IsClientEvent(e)
IsDeferredContainerEvent(e) == IsContainerEvent(e) /\ ~IsSentError(e)

\* Each emitter dispatches what it queued, in the order it queued it
C17_Fifo(Queued(_)) ==
    /\ SelectSeq(delivered, IsClientEvent) \o clientTriggers
          = SelectSeq(emitted, IsClientEvent)
    /\ SelectSeq(delivered, Queued) \o _delayedTriggers
          = SelectSeq(emitted, Queued)

\* Nothing a create result emits reaches the observers inside the call
C17_NothingInline == Calls("_createResult") => delivered' = delivered

\* Only 'sent-error' reaches the observers inside the call
C17_OnlySentErrorInline ==
    Calls("_createResult") =>
        /\ Extends(delivered, delivered')
        /\ Added(delivered, delivered')
             = SelectSeq(Added(emitted, emitted'), IsSentError)

\* C17 as claimed: every notification of a create result, 'sent-error'
\* included, is queued and dispatched after the call, in the order queued.
C17_AllDeferred == [](C17_Fifo(IsContainerEvent)) /\ [][C17_NothingInline]_vars

\* C17, amended: state-change 'ended', the id change and 'sent' of a create
\* result are dispatched deferred, after _createResult returned, each emitter
\* dispatching in the order it queued; 'sent-error' alone is delivered inside
\* the call, before the container is destroyed.
C17_DeferredButSentError ==
    [](C17_Fifo(IsDeferredContainerEvent)) /\ [][C17_OnlySentErrorInline]_vars

\* observers got 'ended', the id change and 'sent' after the create result
C17_Witness ==
    /\ lastCall.op \in {"_processDelayedTriggers", "client._processDelayedTriggers"}
    /\ Where(delivered, IsEnded) # {}
    /\ Where(delivered, IsIdChange) # {}
    /\ Where(delivered, IsSent) # {}
    /\ _delayedTriggers = <<>>
    /\ clientTriggers = <<>>

----------------------------------------------------------------------------
(* C18 *)

\* The step is a call of setMetadataProperties or deleteMetadataProperties
PatchCalled ==
    Calls("setMetadataProperties") \/ Calls("deleteMetadataProperties")

\* The operations the call of the step built
BuiltOperations ==
    IF lastCall'.op = "setMetadataProperties"
    THEN SetOperations(lastCall'.arg)
    ELSE DeleteOperations(lastCall'.arg)

C18_LocalOnly ==
    /\ PatchCalled /\ syncState = "NEW" =>
          /\ issued' = issued
          /\ pending' = pending
          /\ syncState' = "NEW"
          /\ raised' = NoError =>
                metadata' = ApplyOperations(metadata, BuiltOperations).v
    /\ Where(issued', IsPatchRequest) # Where(issued, IsPatchRequest) =>
          PatchCalled /\ syncState # "NEW"

C18_NoPatchWhileNew ==
    syncState = "NEW" => Where(issued, IsPatchRequest) = {}

\* C18: a setMetadataProperties or deleteMetadataProperties call made while
\* the container is NEW changes the local metadata only: it issues no PATCH
\* request, then or later; every PATCH request is issued by a call made in
\* another state than NEW.
C18_NewPatchesStayLocal == [](C18_NoPatchWhileNew) /\ [][C18_LocalOnly]_vars

\* setMetadataProperties({a: '2'}) on a NEW container: metadata changed, no request
C18_Witness ==
    /\ lastCall.op = "setMetadataProperties"
    /\ syncState = "NEW"
    /\ IndexOfKey(metadata.kv, <<"a">>) # 0
    /\ Lookup(metadata, <<"a">>) = Str("2")
    /\ issued = <<>>

----------------------------------------------------------------------------
(* C13 *)

\* The change notification of the metadata property for a patch event
MetadataChange(event) ==
    [evtName |-> <<eventPrefix, "change">>,
     args |-> [property |-> "metadata", newValue |-> event.newValue,
               oldValue |-> event.oldValue, paths |-> event.paths]]

C13_Patch ==
    Calls("_handlePatchEvent") =>
        LET event == lastCall'.arg
        IN /\ Extends(emitted, emitted')
           /\ Added(emitted, emitted') =
                IF /\ FirstSegment(event.paths[1]) = <<"metadata">>
                   /\ JSON_stringify(event.newValue) # JSON_stringify(event.oldValue)
                THEN <<MetadataChange(event)>>
                ELSE <<>>

\* C13: a server patch event emits one metadata change notification, with
\* oldValue, newValue and the paths of the event, when the first segment of
\* its first path is 'metadata' and the serialized values differ; it emits
\* nothing when the values are equal or the first segment is another word,
\* one that starts with the letters 'metadata' included.
C13_PatchEventNotifies == [][C13_Patch]_vars

----------------------------------------------------------------------------
(* C14 *)

\* A path rooted under 'metadata'
Rooted(path) ==
    IF path = <<"metadata">> \/ StartsWith(path, <<"metadata", Dot>>)
    THEN path
    ELSE <<"metadata", Dot>> \o path

\* The names of the entries of a setMetadataProperties argument
Names(props) == [i \in 1..Len(props) |-> props[i].name]
HasName(e) == e.name # <<>>

\* ops is one operation of the kind per path, in order, each path rooted
OnePerPath(ops, kind, paths) ==
    /\ Len(ops) = Len(paths)
    /\ \A i \in 1..Len(paths) :
          ops[i].operation = kind /\ ops[i].property = Rooted(paths[i])

\* The entries that name the paths of ops again
Renamed(ops) == [i \in 1..Len(ops) |-> [name |-> ops[i].property, value |-> ops[i].value]]

\* What the builders give for the entries the call was given
C14_Builders(entries) ==
    /\ Calls("setMetadataProperties") =>
          LET ops == SetOperations(lastCall'.arg)
          IN /\ OnePerPath(ops, "set", Names(entries))
             /\ \A i \in 1..Len(ops) : ops[i].value = entries[i].value
             /\ Properties(SetOperations(Renamed(ops))) = Properties(ops)
    /\ Calls("deleteMetadataProperties") =>
          LET ops == DeleteOperations(lastCall'.arg)
          IN /\ OnePerPath(ops, "delete", lastCall'.arg)
             /\ Properties(DeleteOperations(Properties(ops))) = Properties(ops)
    /\ PatchCalled /\ issued' # issued =>
          Last(issued').data = JSON_operations(BuiltOperations)

\* Every entry of the argument
AllEntries ==
    IF lastCall'.op = "setMetadataProperties" THEN lastCall'.arg ELSE <<>>

\* The entries of the argument whose key is not the empty string
NamedEntries ==
    IF lastCall'.op = "setMetadataProperties"
    THEN SelectSeq(lastCall'.arg, HasName)
    ELSE <<>>

\* C14 as claimed: both builders give one operation per entry of the input,
\* none skipped, in input order; a path that is 'metadata' or starts with
\* 'metadata.' is kept, any other gets 'metadata.' before it; building again
\* from the paths built gives the same paths.
C14_OnePerEntry == [][C14_Builders(AllEntries)]_vars

\* C14, amended: deleteMetadataProperties builds one operation per entry of
\* its input and setMetadataProperties one per entry whose key is not the
\* empty string (an entry with the empty key is skipped), in input order; a
\* path that is 'metadata' or starts with 'metadata.' is kept, any other gets
\* 'metadata.' before it; building again from the paths built gives the same
\* paths.
C14_OnePerNamedEntry == [][C14_Builders(NamedEntries)]_vars

\* setMetadataProperties({'': 'x', 'metadata.b': '3'}) sent one operation, on
\* metadata.b
C14_Witness ==
    /\ lastCall.op = "setMetadataProperties"
    /\ Len(lastCall.arg) = 2
    /\ lastCall.arg[1].name = <<>>
    /\ issued # <<>>
    /\ Properties(Last(issued).data) = <<<<"metadata", Dot, "b">>>>

----------------------------------------------------------------------------
(* C15 *)

\* An operation built from the argument carries a value that is no string
\* and no mapping of strings
HasDisallowedValue(props) ==
    \E i \in 1..Len(props) : HasName(props[i]) /\ ~ValidValue(props[i].value)

C15_Rejected ==
    Calls("setMetadataProperties") /\ HasDisallowedValue(lastCall'.arg) =>
        /\ raised' = "InvalidMetadataValueError"
        /\ metadata' = metadata
        /\ issued' = issued
        /\ pending' = pending
        /\ emitted' = emitted
        /\ delivered' = delivered
        /\ syncState' = syncState

\* C15: a setMetadataProperties call with a disallowed leaf value raises
\* InvalidMetadataValueError and leaves the metadata as it was, no operation
\* of the batch applied; no PATCH request is issued and no notification is
\* emitted.
C15_InvalidValueChangesNothing == [][C15_Rejected]_vars

\* setMetadataProperties({b: '3', a: 7}) raised on a synced container
C15_Witness ==
    /\ lastCall.op = "setMetadataProperties"
    /\ HasDisallowedValue(lastCall.arg)
    /\ raised = "InvalidMetadataValueError"
    /\ syncState = "SYNCED"
    /\ metadata = MetaA1
    /\ issued = <<>>
    /\ emitted = <<>>

----------------------------------------------------------------------------
(* C16 *)

\* The PATCH request of the call of the step
PatchRequest ==
    [url |-> "", method |-> "PATCH", data |-> JSON_operations(BuiltOperations),
     headers |-> "application/vnd.layer-patch+json", callback |-> lastCall'.op]

\* The metadata was changed and notified, and the request of the change is
\* issued and not yet answered
C16_AppliedNotifiedSent ==
    /\ metadata' = ApplyOperations(metadata, BuiltOperations).v
    /\ metadata' # metadata
    /\ Added(emitted, emitted') =
          <<[evtName |-> <<eventPrefix, "change">>,
             args |-> [property |-> "metadata", newValue |-> metadata',
                       oldValue |-> metadata,
                       paths |-> Properties(BuiltOperations)]]>>
    /\ _delayedTriggers' = _delayedTriggers \o Added(emitted, emitted')
    /\ issued' = Append(issued, PatchRequest)
    /\ pending' = pending \cup {Len(issued')}

ChangesMetadata ==
    /\ ApplyOperations(metadata, BuiltOperations).ok
    /\ ApplyOperations(metadata, BuiltOperations).v # metadata

----------------------------------------------------------------------------
(* C19 *)

\* A patch event that changes the metadata is notified
C19_PatchEventHeard ==
    /\ Calls("_handlePatchEvent")
    /\ FirstSegment(lastCall'.arg.paths[1]) = <<"metadata">>
    /\ JSON_stringify(lastCall'.arg.newValue) # JSON_stringify(lastCall'.arg.oldValue)
    => Added(emitted, emitted') = <<MetadataChange(lastCall'.arg)>>

\* C19: _inLayerParser is false in every state between two calls, also after
\* a setMetadataProperties or deleteMetadataProperties call that raised
\* InvalidMetadataValueError or InvalidPathError, so that a later server
\* patch event that changes the metadata emits its change notification.
C19_FlagClearedAfterCall == [](~_inLayerParser) /\ [][C19_PatchEventHeard]_vars

----------------------------------------------------------------------------
(* C20 *)

\* What toObject() returns in the current state
Snapshot == toObject(Cur)._toObject

\* C20: in every state toObject() returns a snapshot whose metadata, id and
\* url are those of the container: a cached snapshot is not returned once one
\* of them has changed.
C20_SnapshotIsCurrent ==
    /\ Snapshot.metadata = metadata
    /\ Snapshot.id = id
    /\ Snapshot.url = url

====
